---- MODULE Spec2Model ----
(***************************************************************************)
(* Task tracker: Task / TaskRole / TaskItem store, the permission classes  *)
(* of apps/tasks/permissions.py and the request handlers of                *)
(* apps/tasks/views.py and apps/tasks/serializers.py.                      *)
(*                                                                         *)
(* One action is one HTTP request, handled from routing to response.  The  *)
(* store holds the rows of the tables; `request' and `response' keep the   *)
(* last request handled and the answer it got.                             *)
(*                                                                         *)
(* Of the columns of Task the model keeps title and status, of TaskItem    *)
(* title, executor, status, planned_hours, order and completed_at; the     *)
(* other text, link and date columns are written like title and take part  *)
(* in no check of the code.  Under Spec requests are handled one after the *)
(* other; SpecConcurrent lets two workers handle add_role requests step by *)
(* step, SpecTimeLogs adds the TimeLog table of apps/timelogs/models.py.   *)
(***************************************************************************)
EXTENDS Integers, FiniteSets, Sequences, TLC

\* ------------------------------------------------------------------ bounds
MaxTasks == 2       \* Task rows ever created
MaxRoles == 5       \* TaskRole rows ever created
MaxItems == 2       \* TaskItem rows ever created
MaxClock == 4       \* timezone.now() runs from 1 to MaxClock
MaxTimeLogs == 1    \* TimeLog rows ever created
MaxTotal == 32      \* items of the task whose progress is computed

\* ------------------------------------------------------------- the users
\* Rows of the users table; user 3 was created with is_staff=True.
Users == {1, 2, 3}
StaffUsers == {3}
\* A user id that names no row of the users table.
NoSuchUser == 0
NULL == -1

is_staff(u) == u \in StaffUsers

\* ------------------------------------------------------------ the choices
TASK_STATUS_CHOICES == {"new", "in_progress", "review", "completed", "cancelled"}
ROLE_CHOICES == {"assigner", "co_executor", "observer"}
ITEM_STATUS_CHOICES == {"todo", "in_progress", "completed", "blocked"}

\* HTTP status codes
HTTP_200_OK == 200
HTTP_201_CREATED == 201
HTTP_204_NO_CONTENT == 204
HTTP_400_BAD_REQUEST == 400
HTTP_403_FORBIDDEN == 403
HTTP_404_NOT_FOUND == 404
\* an exception no handler catches (IntegrityError, TypeError)
HTTP_500_SERVER_ERROR == 500

\* Outcomes of a call that is not an HTTP request: the exception raised
ValidationError == 1
DoesNotExist == 2

VARIABLES
    tasks,          \* Task rows:     id -> [title, status]
    roles,          \* TaskRole rows: id -> [task, user, role]
    items,          \* TaskItem rows: id -> [task, title, executor, status,
                    \*                       planned_hours, order, completed_at]
    next_task_id,   \* auto-increment primary keys
    next_role_id,
    next_item_id,
    now,            \* timezone.now()
    request,        \* the last request handled
    response,       \* and its answer
    timelogs,       \* TimeLog rows: id -> [user, task, task_item, hours]
    next_timelog_id,
    inflight        \* worker -> the request it is in the middle of

vars == <<tasks, roles, items, next_task_id, next_role_id, next_item_id,
          now, request, response, timelogs, next_timelog_id, inflight>>

\* ------------------------------------------------------------ row helpers
TaskIds == DOMAIN tasks
RoleIds == DOMAIN roles
ItemIds == DOMAIN items
TimeLogIds == DOMAIN timelogs

\* task.roles / task.items: the related managers
RolesOf(t) == {r \in RoleIds : roles[r].task = t}
ItemsOf(t) == {i \in ItemIds : items[i].task = t}
\* task.timelogs / task_item.timelogs
TimeLogsOfTask(t) == {l \in TimeLogIds : timelogs[l].task = t}
TimeLogsOfItem(i) == {l \in TimeLogIds : timelogs[l].task_item = i}

\* f with key k added (an INSERT) and with key k removed (a DELETE)
Insert(f, k, row) == [x \in DOMAIN f \cup {k} |-> IF x = k THEN row ELSE f[x]]
Delete(f, ks) == [x \in DOMAIN f \ ks |-> f[x]]

Has(data, field) == field \in DOMAIN data
Get(data, field, default) == IF field \in DOMAIN data THEN data[field] ELSE default

NoRequest == [op |-> "none", user |-> NULL, pk |-> NULL, method |-> "NONE",
              data |-> <<>>]
Resp(code, detail, results) ==
    [code |-> code, detail |-> detail, results |-> results]
NoResponse == Resp(0, NULL, <<>>)

\* =========================================================== models.py
\* TaskRole.clean: only one assigner per task.  TRUE when clean() returns,
\* FALSE when it raises ValidationError.  pk is the row's own key (NULL for
\* a row not yet saved).  TaskRole.save is not overridden and no view or
\* serializer calls clean() or full_clean(), so no request below uses it.
TaskRole_clean(row, pk) ==
    IF row.role = "assigner"
    THEN LET existing_assigner ==
                 \E r \in RoleIds \ {pk} :
                     roles[r].task = row.task /\ roles[r].role = "assigner"
         IN  ~existing_assigner
    ELSE TRUE

\* TaskItem.save without the branch that clears completed_at
TaskItem_save_NeverCleared(row) ==
    IF row.status = "completed" /\ row.completed_at = NULL
    THEN [row EXCEPT !.completed_at = now]
    ELSE row

\* TaskItem.save that stamps completed_at on every write of a completed row
TaskItem_save_AlwaysStamp(row) ==
    IF row.status = "completed"
    THEN [row EXCEPT !.completed_at = now]
    ELSE [row EXCEPT !.completed_at = NULL]

\* TaskItem.save: completed_at follows status, then the row is written.
TaskItem_save(row) ==
    IF row.status = "completed" /\ row.completed_at = NULL
    THEN [row EXCEPT !.completed_at = now]
    ELSE IF row.status # "completed" /\ row.completed_at # NULL
         THEN [row EXCEPT !.completed_at = NULL]
         ELSE row

\* A TaskRole table without the unique constraint
UniqueTogetherViolated_NoConstraint(rs, row) == FALSE

\* unique_together = ('task', 'user', 'role'): TRUE when the INSERT of row
\* would raise IntegrityError on the rows rs.
UniqueTogetherViolated(rs, row) ==
    \E r \in DOMAIN rs : rs[r].task = row.task /\ rs[r].user = row.user
                         /\ rs[r].role = row.role

\* Rounding of a tie away from zero instead of to the even neighbour
round_HalfUp(completed, count) ==
    (20000 * completed + count) \div (2 * count)

\* round((completed / count) * 100, 2), counted in hundredths of a percent.
\* Python's round() of a float gives the two-decimal value nearest to the
\* double and, when the double is exactly half way, the one with the even
\* last digit.  For count < 160 the double (completed / count) * 100 is
\* half way exactly when 100 * completed / count is (count = 32 * k, where
\* both float operations are exact) and otherwise lies on the same side of
\* every half-way point as the exact quotient, so the result is the exact
\* quotient rounded half to even.
round(completed, count) ==
    LET q == (10000 * completed) \div count
        r == (10000 * completed) % count
    IN  IF 2 * r > count \/ (2 * r = count /\ q % 2 = 1) THEN q + 1 ELSE q

\* Task.progress_percentage, in hundredths of a percent
progress_percentage(t) ==
    LET items_ == ItemsOf(t)
    IN  IF items_ = {} THEN 0
        ELSE LET completed == Cardinality({i \in items_ :
                                              items[i].status = "completed"})
             IN  round(completed, Cardinality(items_))

\* Task.assigner: the user of the first assigner role, or NULL (None).
Min(S) == CHOOSE x \in S : \A y \in S : x <= y

\* The lookup taking the last assigner role instead of the first
assigner_Last(t) ==
    LET rs == {r \in RolesOf(t) : roles[r].role = "assigner"}
    IN  IF rs = {} THEN NULL
        ELSE roles[CHOOSE x \in rs : \A y \in rs : x >= y].user

\* .first() on a queryset without ordering orders by primary key.
assigner(t) ==
    LET rs == {r \in RolesOf(t) : roles[r].role = "assigner"}
    IN  IF rs = {} THEN NULL ELSE roles[Min(rs)].user

\* ====================================================== permissions.py
\* IsTaskParticipant.has_object_permission, obj a Task
IsTaskParticipant_Task(u, t) ==
    IF is_staff(u) THEN TRUE
    ELSE LET has_role == \E r \in RolesOf(t) : roles[r].user = u
             is_executor == \E i \in ItemsOf(t) : items[i].executor = u
         IN  IF has_role THEN TRUE
             ELSE IF is_executor THEN TRUE
             ELSE FALSE

\* The TaskItem branch looking at the executor of the item alone
IsTaskParticipant_TaskItem_OwnExecutor(u, i) ==
    IF is_staff(u) THEN TRUE
    ELSE LET task == items[i].task
             has_role == \E r \in RolesOf(task) : roles[r].user = u
             is_executor == items[i].executor = u
         IN  IF has_role THEN TRUE
             ELSE IF is_executor THEN TRUE
             ELSE FALSE

\* IsTaskParticipant.has_object_permission, obj a TaskItem (hasattr task)
IsTaskParticipant_TaskItem(u, i) ==
    IF is_staff(u) THEN TRUE
    ELSE LET task == items[i].task
             has_role == \E r \in RolesOf(task) : roles[r].user = u
             is_executor == \E j \in ItemsOf(task) : items[j].executor = u
         IN  IF has_role THEN TRUE
             ELSE IF is_executor THEN TRUE
             ELSE FALSE

\* IsAssigner without the role='assigner' filter
IsAssigner_Task_AnyRole(u, t) ==
    IF is_staff(u) THEN TRUE
    ELSE \E r \in RolesOf(t) : roles[r].user = u

\* IsAssigner.has_object_permission, obj a Task
IsAssigner_Task(u, t) ==
    IF is_staff(u) THEN TRUE
    ELSE \E r \in RolesOf(t) : roles[r].user = u /\ roles[r].role = "assigner"

\* The assigner branch accepting any role on the task
IsTaskItemExecutorOrAssigner_AnyRole(u, method, data, i) ==
    IF is_staff(u) THEN TRUE
    ELSE LET is_assigner ==
                 \E r \in RolesOf(items[i].task) : roles[r].user = u
         IN  IF is_assigner THEN TRUE
             ELSE IF items[i].executor = u
                  THEN IF method \in {"PATCH", "PUT"}
                       THEN LET allowed_fields == {"status"}
                                update_fields == DOMAIN data
                            IN  update_fields \subseteq allowed_fields
                       ELSE FALSE
                  ELSE FALSE

\* The executor branch with the subset test the wrong way round
IsTaskItemExecutorOrAssigner_Superset(u, method, data, i) ==
    IF is_staff(u) THEN TRUE
    ELSE LET is_assigner ==
                 \E r \in RolesOf(items[i].task) :
                     roles[r].user = u /\ roles[r].role = "assigner"
         IN  IF is_assigner THEN TRUE
             ELSE IF items[i].executor = u
                  THEN IF method \in {"PATCH", "PUT"}
                       THEN LET allowed_fields == {"status"}
                                update_fields == DOMAIN data
                            IN  allowed_fields \subseteq update_fields
                       ELSE FALSE
                  ELSE FALSE

\* IsTaskItemExecutorOrAssigner.has_object_permission
IsTaskItemExecutorOrAssigner(u, method, data, i) ==
    IF is_staff(u) THEN TRUE
    ELSE LET is_assigner ==
                 \E r \in RolesOf(items[i].task) :
                     roles[r].user = u /\ roles[r].role = "assigner"
         IN  IF is_assigner THEN TRUE
             ELSE IF items[i].executor = u
                  THEN IF method \in {"PATCH", "PUT"}
                       THEN LET allowed_fields == {"status"}
                                update_fields == DOMAIN data
                            IN  update_fields \subseteq allowed_fields
                       ELSE FALSE
                  ELSE FALSE

\* ============================================================ views.py
\* TaskViewSet.get_queryset before .distinct(): the rows of
\*   Task LEFT JOIN TaskRole LEFT JOIN TaskItem
\*   WHERE role.user = u OR item.executor = u
\* as <<task, role or NULL, item or NULL>>.
TaskJoinRows(u) ==
    {row \in UNION {
        {<<t, r, i>> :
            r \in (IF RolesOf(t) = {} THEN {NULL} ELSE RolesOf(t)),
            i \in (IF ItemsOf(t) = {} THEN {NULL} ELSE ItemsOf(t))}
        : t \in TaskIds} :
        \/ (row[2] # NULL /\ roles[row[2]].user = u)
        \/ (row[3] # NULL /\ items[row[3]].executor = u)}

\* The queryset without .distinct(): one result per joined row
Distinct_Missing(rows, t) == Cardinality({row \in rows : row[1] = t})

\* .distinct(): how many times each task is in the result
Distinct(rows, t) == IF \E row \in rows : row[1] = t THEN 1 ELSE 0

\* The queryset without the participant filter
TaskViewSet_get_queryset_Unfiltered(u) ==
    [t \in TaskIds |-> 1]

TaskViewSet_get_queryset(u) ==
    [t \in TaskIds |-> Distinct(TaskJoinRows(u), t)]

\* The tasks of a queryset as the list the response carries:
\* Meta.ordering = ['-created_at'], one entry per result row.
RECURSIVE Repeat(_, _)
Repeat(x, n) == IF n = 0 THEN <<>> ELSE <<x>> \o Repeat(x, n - 1)
RECURSIVE ListedFrom(_, _)
ListedFrom(qs, t) ==
    IF t = 0 THEN <<>>
    ELSE (IF t \in DOMAIN qs THEN Repeat(t, qs[t]) ELSE <<>>)
         \o ListedFrom(qs, t - 1)
Listed(qs) == ListedFrom(qs, next_task_id - 1)

\* TaskItemViewSet.get_queryset: items of tasks the user has a role on, or
\* that the user executes (the join on roles is made distinct).
TaskItemViewSet_get_queryset(u) ==
    {i \in ItemIds :
        \/ \E r \in RolesOf(items[i].task) : roles[r].user = u
        \/ items[i].executor = u}

\* get_object checking the permission before the lookup
Task_get_object_PermissionFirst(u, pk, permitted) ==
    IF ~permitted THEN HTTP_403_FORBIDDEN
    ELSE IF ~(pk \in TaskIds /\ TaskViewSet_get_queryset(u)[pk] > 0)
    THEN HTTP_404_NOT_FOUND
    ELSE 0

\* GenericAPIView.get_object on TaskViewSet: get_object_or_404 on the
\* queryset, then check_object_permissions with the action's permission.
\* The answer is the code of the failure, or 0 when the object is returned.
Task_get_object(u, pk, permitted) ==
    IF ~(pk \in TaskIds /\ TaskViewSet_get_queryset(u)[pk] > 0)
    THEN HTTP_404_NOT_FOUND
    ELSE IF ~permitted THEN HTTP_403_FORBIDDEN
    ELSE 0

TaskItem_get_object(u, pk, permitted) ==
    IF pk \notin TaskItemViewSet_get_queryset(u)
    THEN HTTP_404_NOT_FOUND
    ELSE IF ~permitted THEN HTTP_403_FORBIDDEN
    ELSE 0

\* ====================================================== serializers.py
\* The writable fields of TaskItemSerializer; keys of the request body that
\* are read-only (completed_at) or unknown are dropped by validation.
ITEM_WRITABLE == {"title", "executor_id", "status", "planned_hours", "order"}
TASK_WRITABLE == {"title", "status"}

Validated(data, writable) ==
    [f \in DOMAIN data \cap writable |-> data[f]]

\* TaskItemSerializer.is_valid: title is required unless the update is
\* partial, status is one of the choices, order is a PositiveIntegerField.
TaskItemSerializer_is_valid(data, partial) ==
    /\ partial \/ Has(data, "title")
    /\ Has(data, "status") => data["status"] \in ITEM_STATUS_CHOICES
    /\ Has(data, "order") => data["order"] >= 0

\* TaskRoleSerializer.is_valid: user_id and role are required, role is one
\* of the choices.  Model.clean() is not called by the serializer and the
\* serializer has no unique-together validator (task is not one of its
\* fields).
TaskRoleSerializer_is_valid(data) ==
    /\ Has(data, "user_id")
    /\ Has(data, "role")
    /\ data["role"] \in ROLE_CHOICES

\* The row TaskItem.objects.create(task=task, **kw) hands to save():
\* the model defaults for what kw leaves out.
NewItemRow(task, kw) ==
    [task |-> task,
     title |-> Get(kw, "title", ""),
     executor |-> Get(kw, "executor_id", NULL),
     status |-> Get(kw, "status", "todo"),
     planned_hours |-> Get(kw, "planned_hours", 0),
     order |-> Get(kw, "order", 0),
     completed_at |-> NULL]

\* A foreign key to the users table that names no user raises
\* IntegrityError; NULL is allowed where the column is nullable.
UserExists(u) == u \in Users

\* validate_status counting every item of the task
validate_status_AllItems(t, value) ==
    IF value = "completed"
    THEN LET incomplete_items ==
                 {i \in ItemsOf(t) : items[i].status # "completed"}
         IN  IF incomplete_items # {} THEN Cardinality(ItemsOf(t)) ELSE 0
    ELSE 0

\* TaskUpdateSerializer.validate_status: the number of items that are not
\* completed when the new status is "completed", and 0 when the value is
\* accepted.
validate_status(t, value) ==
    IF value = "completed"
    THEN LET incomplete_items ==
                 {i \in ItemsOf(t) : items[i].status # "completed"}
         IN  Cardinality(incomplete_items)
    ELSE 0

\* TaskUpdateSerializer.is_valid
TaskUpdateSerializer_is_valid(t, data, partial) ==
    /\ partial \/ Has(data, "title")
    /\ Has(data, "status") => /\ data["status"] \in TASK_STATUS_CHOICES
                              /\ validate_status(t, data["status"]) = 0

\* The loop over a list of user ids that stops after its first entry
CreateRoles_FirstOnly(rs, nid, task, user_ids, role) ==
    IF user_ids = <<>> THEN [ok |-> TRUE, rows |-> rs, next |-> nid]
    ELSE LET row == [task |-> task, user |-> Head(user_ids), role |-> role]
         IN  IF ~UserExists(row.user) \/ UniqueTogetherViolated(rs, row)
             THEN [ok |-> FALSE, rows |-> rs, next |-> nid]
             ELSE [ok |-> TRUE, rows |-> Insert(rs, nid, row),
                   next |-> nid + 1]

\* TaskCreateSerializer.create, the loops over co_executors / observers:
\* the role rows after the INSERTs, or "error" once an INSERT raises.
RECURSIVE CreateRoles(_, _, _, _, _)
CreateRoles(rs, nid, task, user_ids, role) ==
    IF user_ids = <<>> THEN [ok |-> TRUE, rows |-> rs, next |-> nid]
    ELSE LET row == [task |-> task, user |-> Head(user_ids), role |-> role]
         IN  IF ~UserExists(row.user) \/ UniqueTogetherViolated(rs, row)
             THEN [ok |-> FALSE, rows |-> rs, next |-> nid]
             ELSE CreateRoles(Insert(rs, nid, row), nid + 1, task,
                              Tail(user_ids), role)

\* The loop over task_items counting positions from 1
RECURSIVE CreateItems_OrderFromOne(_, _, _, _, _)
CreateItems_OrderFromOne(its, nid, task, defs, idx) ==
    IF defs = <<>> THEN [ok |-> TRUE, rows |-> its, next |-> nid]
    ELSE LET item_data == Validated(Head(defs), ITEM_WRITABLE)
             executor_id == Get(item_data, "executor_id", NULL)
             row == [NewItemRow(task, item_data) EXCEPT !.order = idx + 1]
         IN  IF \/ Has(item_data, "order")
                \/ (executor_id # NULL /\ ~UserExists(executor_id))
             THEN [ok |-> FALSE, rows |-> its, next |-> nid]
             ELSE CreateItems_OrderFromOne(
                      Insert(its, nid, TaskItem_save(row)), nid + 1,
                      task, Tail(defs), idx + 1)

\* TaskCreateSerializer.create, the loop over task_items:
\*   TaskItem.objects.create(task=task, executor_id=executor_id,
\*                           order=idx, **item_data)
\* raises TypeError when item_data still has the key order.
RECURSIVE CreateItems(_, _, _, _, _)
CreateItems(its, nid, task, defs, idx) ==
    IF defs = <<>> THEN [ok |-> TRUE, rows |-> its, next |-> nid]
    ELSE LET item_data == Validated(Head(defs), ITEM_WRITABLE)
             executor_id == Get(item_data, "executor_id", NULL)
             row == [NewItemRow(task, item_data) EXCEPT !.order = idx]
         IN  IF \/ Has(item_data, "order")
                \/ (executor_id # NULL /\ ~UserExists(executor_id))
             THEN [ok |-> FALSE, rows |-> its, next |-> nid]
             ELSE CreateItems(Insert(its, nid, TaskItem_save(row)), nid + 1,
                              task, Tail(defs), idx + 1)

\* TaskCreateSerializer.is_valid
TaskCreateSerializer_is_valid(data) ==
    /\ Has(data, "title")
    /\ \A k \in 1..Len(Get(data, "task_items", <<>>)) :
           TaskItemSerializer_is_valid(data["task_items"][k], FALSE)

\* ============================================================== inputs
\* Primary keys a URL can name (rows that exist, were deleted, or never
\* existed).
TaskPks == {1, 2}
ItemPks == {1, 2}
RolePks == {1, 2, 3}

\* Bodies of POST /tasks/
TaskCreateInputs ==
    { [title |-> "a"],
      [title |-> "a", co_executors |-> <<2>>, observers |-> <<3>>,
       task_items |-> << [title |-> "a", executor_id |-> 2] >>],
      [title |-> "a", co_executors |-> <<2, 3>>, observers |-> <<2>>,
       task_items |-> << [title |-> "a"],
                         [title |-> "a", status |-> "completed"] >>],
      [title |-> "a", co_executors |-> <<2, 2>>],
      [title |-> "a", observers |-> <<NoSuchUser>>],
      [title |-> "a", task_items |-> << [title |-> "a", order |-> 1] >>],
      [co_executors |-> <<2>>] }

\* Method and body of PUT/PATCH /tasks/{pk}/
TaskUpdateInputs ==
    { <<"PATCH", [status |-> "completed"]>>,
      <<"PATCH", [title |-> "b"]>>,
      <<"PUT", [title |-> "b", status |-> "in_progress"]>>,
      <<"PUT", [status |-> "completed"]>> }

\* Bodies of POST /tasks/{pk}/add_role/
AddRoleInputs ==
    { [user_id |-> 1, role |-> "assigner"],
      [user_id |-> 2, role |-> "assigner"],
      [user_id |-> 2, role |-> "co_executor"],
      [user_id |-> NoSuchUser, role |-> "observer"],
      [user_id |-> 2, role |-> "owner"] }

\* Bodies of POST /tasks/{pk}/add_item/
AddItemInputs ==
    { [title |-> "a", executor_id |-> 2],
      [title |-> "a", status |-> "completed"],
      [title |-> "a", executor_id |-> NoSuchUser],
      [status |-> "todo"] }

\* Method and body of PUT/PATCH /task-items/{pk}/
ItemUpdateInputs ==
    { <<"PATCH", [status |-> "completed"]>>,
      <<"PATCH", [status |-> "in_progress"]>>,
      <<"PATCH", <<>> >>,
      <<"PATCH", [title |-> "b", status |-> "in_progress"]>>,
      <<"PATCH", [status |-> "completed", completed_at |-> NULL]>>,
      <<"PUT", [status |-> "completed"]>> }

Req(op, u, pk, method, data) ==
    [op |-> op, user |-> u, pk |-> pk, method |-> method, data |-> data]

\* The workers of the server that handle requests at the same time, and a
\* worker that handles none.
Workers == {1, 2}
Idle == [pc |-> "idle", user |-> NULL, pk |-> NULL, method |-> "NONE",
         data |-> <<>>]

\* ============================================================= requests
\* Every request is handled at its own time: the clock moves on with each
\* request, and timezone.now() inside the handler is the request's time.
Clock ==
    /\ now < MaxClock
    /\ now' = now + 1

\* create without transaction.atomic: the rows written before the
\* exception stay.
TaskCreate_NoAtomic(u, data) ==
    LET co_executors == Get(data, "co_executors", <<>>)
        observers == Get(data, "observers", <<>>)
        task_items_data == Get(data, "task_items", <<>>)
        task == next_task_id
        r0 == Insert(roles, next_role_id,
                     [task |-> task, user |-> u, role |-> "assigner"])
        r1 == CreateRoles(r0, next_role_id + 1, task, co_executors,
                          "co_executor")
        r2 == IF r1.ok
              THEN CreateRoles(r1.rows, r1.next, task, observers, "observer")
              ELSE r1
        i1 == IF r2.ok
              THEN CreateItems(items, next_item_id, task, task_items_data, 0)
              ELSE [ok |-> FALSE, rows |-> items, next |-> next_item_id]
    IN
    /\ next_task_id <= MaxTasks
    /\ next_role_id + Len(co_executors) + Len(observers) <= MaxRoles
    /\ next_item_id + Len(task_items_data) - 1 <= MaxItems
    /\ Clock
    /\ request' = Req("create", u, NULL, "POST", data)
    /\ IF ~TaskCreateSerializer_is_valid(data)
       THEN /\ response' = Resp(HTTP_400_BAD_REQUEST, NULL, <<>>)
            /\ UNCHANGED <<tasks, roles, items, next_task_id, next_role_id,
                           next_item_id>>
       ELSE /\ tasks' = Insert(tasks, task,
                               [title |-> data["title"], status |-> "new"])
            /\ roles' = r2.rows
            /\ items' = i1.rows
            /\ next_task_id' = task + 1
            /\ next_role_id' = r2.next
            /\ next_item_id' = i1.next
            /\ response' = IF i1.ok
                           THEN Resp(HTTP_201_CREATED, task, <<>>)
                           ELSE Resp(HTTP_500_SERVER_ERROR, NULL, <<>>)
    /\ UNCHANGED <<timelogs, next_timelog_id, inflight>>

\* POST /tasks/ : TaskViewSet.create with TaskCreateSerializer.create
\* inside transaction.atomic.
TaskCreate(u, data) ==
    LET co_executors == Get(data, "co_executors", <<>>)
        observers == Get(data, "observers", <<>>)
        task_items_data == Get(data, "task_items", <<>>)
        task == next_task_id
        r0 == Insert(roles, next_role_id,
                     [task |-> task, user |-> u, role |-> "assigner"])
        r1 == CreateRoles(r0, next_role_id + 1, task, co_executors,
                          "co_executor")
        r2 == CreateRoles(r1.rows, r1.next, task, observers, "observer")
        i1 == CreateItems(items, next_item_id, task, task_items_data, 0)
    IN
    /\ next_task_id <= MaxTasks
    /\ next_role_id + Len(co_executors) + Len(observers) <= MaxRoles
    /\ next_item_id + Len(task_items_data) - 1 <= MaxItems
    /\ Clock
    /\ request' = Req("create", u, NULL, "POST", data)
    /\ IF ~TaskCreateSerializer_is_valid(data)
       THEN /\ response' = Resp(HTTP_400_BAD_REQUEST, NULL, <<>>)
            /\ UNCHANGED <<tasks, roles, items, next_task_id, next_role_id,
                           next_item_id>>
       ELSE IF ~(r1.ok /\ r2.ok /\ i1.ok)
       THEN \* the exception leaves transaction.atomic: rollback
            /\ response' = Resp(HTTP_500_SERVER_ERROR, NULL, <<>>)
            /\ UNCHANGED <<tasks, roles, items, next_task_id, next_role_id,
                           next_item_id>>
       ELSE /\ tasks' = Insert(tasks, task,
                               [title |-> data["title"], status |-> "new"])
            /\ roles' = r2.rows
            /\ items' = i1.rows
            /\ next_task_id' = task + 1
            /\ next_role_id' = r2.next
            /\ next_item_id' = i1.next
            /\ response' = Resp(HTTP_201_CREATED, task, <<>>)
    /\ UNCHANGED <<timelogs, next_timelog_id, inflight>>

\* PUT/PATCH /tasks/{pk}/ : UpdateModelMixin.update, permission IsAssigner
TaskUpdate(u, pk, method, data) ==
    LET denied == Task_get_object(u, pk, IsAssigner_Task(u, pk))
        partial == (method = "PATCH")
        validated_data == Validated(data, TASK_WRITABLE)
    IN
    /\ Clock
    /\ request' = Req("update", u, pk, method, data)
    /\ IF denied # 0
       THEN /\ response' = Resp(denied, NULL, <<>>)
            /\ UNCHANGED tasks
       ELSE IF ~TaskUpdateSerializer_is_valid(pk, data, partial)
       THEN /\ response' =
                  Resp(HTTP_400_BAD_REQUEST,
                       IF Has(data, "status")
                          /\ data["status"] \in TASK_STATUS_CHOICES
                          /\ validate_status(pk, data["status"]) > 0
                       THEN validate_status(pk, data["status"])
                       ELSE NULL,
                       <<>>)
            /\ UNCHANGED tasks
       ELSE /\ tasks' = [tasks EXCEPT ![pk] =
                  [f \in DOMAIN @ |->
                      IF Has(validated_data, f) THEN validated_data[f]
                      ELSE @[f]]]
            /\ response' = Resp(HTTP_200_OK, NULL, <<>>)
    /\ UNCHANGED <<roles, items, next_task_id, next_role_id, next_item_id>>
    /\ UNCHANGED <<timelogs, next_timelog_id, inflight>>

\* A task delete whose cascade misses the time logs
TaskDestroy_KeepsTimeLogs(u, pk) ==
    LET denied == Task_get_object(u, pk, IsAssigner_Task(u, pk))
    IN
    /\ Clock
    /\ request' = Req("destroy", u, pk, "DELETE", <<>>)
    /\ IF denied # 0
       THEN /\ response' = Resp(denied, NULL, <<>>)
            /\ UNCHANGED <<tasks, roles, items>>
       ELSE /\ tasks' = Delete(tasks, {pk})
            /\ roles' = Delete(roles, RolesOf(pk))
            /\ items' = Delete(items, ItemsOf(pk))
            /\ response' = Resp(HTTP_204_NO_CONTENT, NULL, <<>>)
    /\ UNCHANGED <<next_task_id, next_role_id, next_item_id>>
    /\ UNCHANGED <<timelogs, next_timelog_id, inflight>>

\* DELETE /tasks/{pk}/ : permission IsAssigner; the roles, the items and the
\* time logs of the task, and the time logs of its items, cascade.
TaskDestroy(u, pk) ==
    LET denied == Task_get_object(u, pk, IsAssigner_Task(u, pk))
    IN
    /\ Clock
    /\ request' = Req("destroy", u, pk, "DELETE", <<>>)
    /\ IF denied # 0
       THEN /\ response' = Resp(denied, NULL, <<>>)
            /\ UNCHANGED <<tasks, roles, items, timelogs>>
       ELSE /\ tasks' = Delete(tasks, {pk})
            /\ roles' = Delete(roles, RolesOf(pk))
            /\ items' = Delete(items, ItemsOf(pk))
            /\ timelogs' = Delete(timelogs,
                   TimeLogsOfTask(pk)
                   \cup UNION {TimeLogsOfItem(i) : i \in ItemsOf(pk)})
            /\ response' = Resp(HTTP_204_NO_CONTENT, NULL, <<>>)
    /\ UNCHANGED <<next_task_id, next_role_id, next_item_id>>
    /\ UNCHANGED <<next_timelog_id, inflight>>

\* GET /tasks/{pk}/ : permission IsTaskParticipant
TaskRetrieve(u, pk) ==
    LET denied == Task_get_object(u, pk, IsTaskParticipant_Task(u, pk))
    IN
    /\ Clock
    /\ request' = Req("retrieve", u, pk, "GET", <<>>)
    /\ response' = IF denied # 0 THEN Resp(denied, NULL, <<>>)
                   ELSE Resp(HTTP_200_OK, pk, <<>>)
    /\ UNCHANGED <<tasks, roles, items, next_task_id, next_role_id,
                   next_item_id>>
    /\ UNCHANGED <<timelogs, next_timelog_id, inflight>>

\* GET /tasks/ : the queryset, listed
TaskList(u) ==
    /\ Clock
    /\ request' = Req("list", u, NULL, "GET", <<>>)
    /\ response' = Resp(HTTP_200_OK, NULL, Listed(TaskViewSet_get_queryset(u)))
    /\ UNCHANGED <<tasks, roles, items, next_task_id, next_role_id,
                   next_item_id>>
    /\ UNCHANGED <<timelogs, next_timelog_id, inflight>>

\* GET /tasks/my/ : TaskViewSet.my filters get_queryset() once more by the
\* same condition and makes the result distinct; the answer is not paged.
my(u) ==
    LET base == TaskViewSet_get_queryset(u)
        rows == {row \in TaskJoinRows(u) : base[row[1]] > 0}
        tasks_ == [t \in TaskIds |-> Distinct(rows, t)]
    IN
    /\ Clock
    /\ request' = Req("my", u, NULL, "GET", <<>>)
    /\ response' = Resp(HTTP_200_OK, NULL, Listed(tasks_))
    /\ UNCHANGED <<tasks, roles, items, next_task_id, next_role_id,
                   next_item_id>>
    /\ UNCHANGED <<timelogs, next_timelog_id, inflight>>

\* POST /tasks/{pk}/add_role/ : TaskViewSet.add_role, permission IsAssigner.
\* serializer.save(task=task) is TaskRole.objects.create(**validated_data).
add_role(u, pk, data) ==
    LET denied == Task_get_object(u, pk, IsAssigner_Task(u, pk))
        row == [task |-> pk, user |-> data["user_id"], role |-> data["role"]]
    IN
    /\ next_role_id <= MaxRoles
    /\ Clock
    /\ request' = Req("add_role", u, pk, "POST", data)
    /\ IF denied # 0
       THEN /\ response' = Resp(denied, NULL, <<>>)
            /\ UNCHANGED <<roles, next_role_id>>
       ELSE IF ~TaskRoleSerializer_is_valid(data)
       THEN /\ response' = Resp(HTTP_400_BAD_REQUEST, NULL, <<>>)
            /\ UNCHANGED <<roles, next_role_id>>
       ELSE IF ~UserExists(row.user) \/ UniqueTogetherViolated(roles, row)
       THEN \* IntegrityError from the INSERT
            /\ response' = Resp(HTTP_500_SERVER_ERROR, NULL, <<>>)
            /\ UNCHANGED <<roles, next_role_id>>
       ELSE /\ roles' = Insert(roles, next_role_id, row)
            /\ next_role_id' = next_role_id + 1
            /\ response' = Resp(HTTP_201_CREATED, next_role_id, <<>>)
    /\ UNCHANGED <<tasks, items, next_task_id, next_item_id>>
    /\ UNCHANGED <<timelogs, next_timelog_id, inflight>>

\* remove_role without the guard on the assigner role
remove_role_AnyRole(u, pk, role_id) ==
    LET denied == Task_get_object(u, pk, IsAssigner_Task(u, pk))
    IN
    /\ Clock
    /\ request' = Req("remove_role", u, pk, "DELETE", [role_id |-> role_id])
    /\ IF denied # 0
       THEN /\ response' = Resp(denied, NULL, <<>>)
            /\ UNCHANGED roles
       ELSE IF ~(role_id \in RoleIds /\ roles[role_id].task = pk)
       THEN /\ response' = Resp(HTTP_404_NOT_FOUND, NULL, <<>>)
            /\ UNCHANGED roles
       ELSE /\ roles' = Delete(roles, {role_id})
            /\ response' = Resp(HTTP_204_NO_CONTENT, NULL, <<>>)
    /\ UNCHANGED <<tasks, items, next_task_id, next_role_id, next_item_id>>
    /\ UNCHANGED <<timelogs, next_timelog_id, inflight>>

\* remove_role that looks the role up by its id alone
remove_role_AnyTask(u, pk, role_id) ==
    LET denied == Task_get_object(u, pk, IsAssigner_Task(u, pk))
    IN
    /\ Clock
    /\ request' = Req("remove_role", u, pk, "DELETE", [role_id |-> role_id])
    /\ IF denied # 0
       THEN /\ response' = Resp(denied, NULL, <<>>)
            /\ UNCHANGED roles
       ELSE IF role_id \notin RoleIds
       THEN /\ response' = Resp(HTTP_404_NOT_FOUND, NULL, <<>>)
            /\ UNCHANGED roles
       ELSE IF roles[role_id].role = "assigner"
       THEN /\ response' = Resp(HTTP_400_BAD_REQUEST, NULL, <<>>)
            /\ UNCHANGED roles
       ELSE /\ roles' = Delete(roles, {role_id})
            /\ response' = Resp(HTTP_204_NO_CONTENT, NULL, <<>>)
    /\ UNCHANGED <<tasks, items, next_task_id, next_role_id, next_item_id>>
    /\ UNCHANGED <<timelogs, next_timelog_id, inflight>>

\* DELETE /tasks/{pk}/roles/{role_id}/ : TaskViewSet.remove_role
remove_role(u, pk, role_id) ==
    LET denied == Task_get_object(u, pk, IsAssigner_Task(u, pk))
    IN
    /\ Clock
    /\ request' = Req("remove_role", u, pk, "DELETE", [role_id |-> role_id])
    /\ IF denied # 0
       THEN /\ response' = Resp(denied, NULL, <<>>)
            /\ UNCHANGED roles
       ELSE IF ~(role_id \in RoleIds /\ roles[role_id].task = pk)
       THEN \* TaskRole.DoesNotExist
            /\ response' = Resp(HTTP_404_NOT_FOUND, NULL, <<>>)
            /\ UNCHANGED roles
       ELSE IF roles[role_id].role = "assigner"
       THEN /\ response' = Resp(HTTP_400_BAD_REQUEST, NULL, <<>>)
            /\ UNCHANGED roles
       ELSE /\ roles' = Delete(roles, {role_id})
            /\ response' = Resp(HTTP_204_NO_CONTENT, NULL, <<>>)
    /\ UNCHANGED <<tasks, items, next_task_id, next_role_id, next_item_id>>
    /\ UNCHANGED <<timelogs, next_timelog_id, inflight>>

\* add_item that stores the row before it looks at is_valid
add_item_SaveFirst(u, pk, data) ==
    LET denied == Task_get_object(u, pk, IsAssigner_Task(u, pk))
        validated_data == Validated(data, ITEM_WRITABLE)
        row == NewItemRow(pk, validated_data)
    IN
    /\ next_item_id <= MaxItems
    /\ Clock
    /\ request' = Req("add_item", u, pk, "POST", data)
    /\ IF denied # 0
       THEN /\ response' = Resp(denied, NULL, <<>>)
            /\ UNCHANGED <<items, next_item_id>>
       ELSE IF row.executor # NULL /\ ~UserExists(row.executor)
       THEN /\ response' = Resp(HTTP_500_SERVER_ERROR, NULL, <<>>)
            /\ UNCHANGED <<items, next_item_id>>
       ELSE /\ items' = Insert(items, next_item_id, TaskItem_save(row))
            /\ next_item_id' = next_item_id + 1
            /\ response' = IF TaskItemSerializer_is_valid(data, FALSE)
                           THEN Resp(HTTP_201_CREATED, next_item_id, <<>>)
                           ELSE Resp(HTTP_400_BAD_REQUEST, NULL, <<>>)
    /\ UNCHANGED <<tasks, roles, next_task_id, next_role_id>>
    /\ UNCHANGED <<timelogs, next_timelog_id, inflight>>

\* POST /tasks/{pk}/add_item/ : TaskViewSet.add_item, permission IsAssigner.
\* serializer.save(task=task) is TaskItem.objects.create(**validated_data),
\* which calls TaskItem.save.
add_item(u, pk, data) ==
    LET denied == Task_get_object(u, pk, IsAssigner_Task(u, pk))
        validated_data == Validated(data, ITEM_WRITABLE)
        row == NewItemRow(pk, validated_data)
    IN
    /\ next_item_id <= MaxItems
    /\ Clock
    /\ request' = Req("add_item", u, pk, "POST", data)
    /\ IF denied # 0
       THEN /\ response' = Resp(denied, NULL, <<>>)
            /\ UNCHANGED <<items, next_item_id>>
       ELSE IF ~TaskItemSerializer_is_valid(data, FALSE)
       THEN /\ response' = Resp(HTTP_400_BAD_REQUEST, NULL, <<>>)
            /\ UNCHANGED <<items, next_item_id>>
       ELSE IF row.executor # NULL /\ ~UserExists(row.executor)
       THEN /\ response' = Resp(HTTP_500_SERVER_ERROR, NULL, <<>>)
            /\ UNCHANGED <<items, next_item_id>>
       ELSE /\ items' = Insert(items, next_item_id, TaskItem_save(row))
            /\ next_item_id' = next_item_id + 1
            /\ response' = Resp(HTTP_201_CREATED, next_item_id, <<>>)
    /\ UNCHANGED <<tasks, roles, next_task_id, next_role_id>>
    /\ UNCHANGED <<timelogs, next_timelog_id, inflight>>

\* An update that resets the fields the request leaves out
ItemWithFields_Replace(row, validated_data) ==
    [row EXCEPT
        !.title = Get(validated_data, "title", ""),
        !.executor = Get(validated_data, "executor_id", NULL),
        !.status = Get(validated_data, "status", "todo"),
        !.planned_hours = Get(validated_data, "planned_hours", 0),
        !.order = Get(validated_data, "order", 0)]

\* ModelSerializer.update on a TaskItem: setattr for every validated field
ItemWithFields(row, validated_data) ==
    [row EXCEPT
        !.title = Get(validated_data, "title", @),
        !.executor = Get(validated_data, "executor_id", @),
        !.status = Get(validated_data, "status", @),
        !.planned_hours = Get(validated_data, "planned_hours", @),
        !.order = Get(validated_data, "order", @)]

\* PUT/PATCH /task-items/{pk}/ : TaskItemViewSet update / partial_update,
\* permission IsTaskItemExecutorOrAssigner, then instance.save().
TaskItemUpdate(u, pk, method, data) ==
    LET denied == TaskItem_get_object(u, pk,
                      IsTaskItemExecutorOrAssigner(u, method, data, pk))
        partial == (method = "PATCH")
        validated_data == Validated(data, ITEM_WRITABLE)
        executor_id == Get(validated_data, "executor_id", NULL)
    IN
    /\ Clock
    /\ request' = Req("item_update", u, pk, method, data)
    /\ IF denied # 0
       THEN /\ response' = Resp(denied, NULL, <<>>)
            /\ UNCHANGED items
       ELSE IF ~TaskItemSerializer_is_valid(data, partial)
       THEN /\ response' = Resp(HTTP_400_BAD_REQUEST, NULL, <<>>)
            /\ UNCHANGED items
       ELSE IF executor_id # NULL /\ ~UserExists(executor_id)
       THEN /\ response' = Resp(HTTP_500_SERVER_ERROR, NULL, <<>>)
            /\ UNCHANGED items
       ELSE /\ items' = [items EXCEPT ![pk] =
                            TaskItem_save(ItemWithFields(@, validated_data))]
            /\ response' = Resp(HTTP_200_OK, NULL, <<>>)
    /\ UNCHANGED <<tasks, roles, next_task_id, next_role_id, next_item_id>>
    /\ UNCHANGED <<timelogs, next_timelog_id, inflight>>

\* DELETE /task-items/{pk}/ : permission IsTaskItemExecutorOrAssigner; the
\* time logs of the item cascade.
TaskItemDestroy(u, pk) ==
    LET denied == TaskItem_get_object(u, pk,
                      IsTaskItemExecutorOrAssigner(u, "DELETE", <<>>, pk))
    IN
    /\ Clock
    /\ request' = Req("item_destroy", u, pk, "DELETE", <<>>)
    /\ IF denied # 0
       THEN /\ response' = Resp(denied, NULL, <<>>)
            /\ UNCHANGED <<items, timelogs>>
       ELSE /\ items' = Delete(items, {pk})
            /\ timelogs' = Delete(timelogs, TimeLogsOfItem(pk))
            /\ response' = Resp(HTTP_204_NO_CONTENT, NULL, <<>>)
    /\ UNCHANGED <<tasks, roles, next_task_id, next_role_id, next_item_id>>
    /\ UNCHANGED <<next_timelog_id, inflight>>

\* GET /task-items/{pk}/ : permission IsTaskParticipant
TaskItemRetrieve(u, pk) ==
    LET denied == TaskItem_get_object(u, pk,
                      IsTaskParticipant_TaskItem(u, pk))
    IN
    /\ Clock
    /\ request' = Req("item_retrieve", u, pk, "GET", <<>>)
    /\ response' = IF denied # 0 THEN Resp(denied, NULL, <<>>)
                   ELSE Resp(HTTP_200_OK, pk, <<>>)
    /\ UNCHANGED <<tasks, roles, items, next_task_id, next_role_id,
                   next_item_id>>
    /\ UNCHANGED <<timelogs, next_timelog_id, inflight>>

\* ------------------------------------------- add_role, step by step
\* A worker handles POST /tasks/{pk}/add_role/ in two steps with other
\* workers' steps in between: first get_object (queryset, permission
\* IsAssigner) and serializer.is_valid, which only read; then
\* serializer.save, the INSERT.  The handler opens no transaction and
\* takes no lock.
add_role_check(w, u, pk, data) ==
    LET denied == Task_get_object(u, pk, IsAssigner_Task(u, pk))
    IN
    /\ inflight[w].pc = "idle"
    /\ Clock
    /\ request' = Req("add_role", u, pk, "POST", data)
    /\ IF denied # 0
       THEN /\ response' = Resp(denied, NULL, <<>>)
            /\ UNCHANGED inflight
       ELSE IF ~TaskRoleSerializer_is_valid(data)
       THEN /\ response' = Resp(HTTP_400_BAD_REQUEST, NULL, <<>>)
            /\ UNCHANGED inflight
       ELSE /\ response' = NoResponse
            /\ inflight' = [inflight EXCEPT ![w] =
                   [pc |-> "save", user |-> u, pk |-> pk, method |-> "POST",
                    data |-> data]]
    /\ UNCHANGED <<tasks, roles, items, next_task_id, next_role_id,
                   next_item_id, timelogs, next_timelog_id>>

\* serializer.save(task=task): TaskRole.objects.create(**validated_data)
add_role_save(w) ==
    LET pk == inflight[w].pk
        data == inflight[w].data
        row == [task |-> pk, user |-> data["user_id"], role |-> data["role"]]
    IN
    /\ inflight[w].pc = "save"
    /\ next_role_id <= MaxRoles
    /\ request' = Req("add_role", inflight[w].user, pk, "POST", data)
    /\ inflight' = [inflight EXCEPT ![w] = Idle]
    /\ IF \/ pk \notin TaskIds
          \/ ~UserExists(row.user)
          \/ UniqueTogetherViolated(roles, row)
       THEN \* IntegrityError from the INSERT
            /\ response' = Resp(HTTP_500_SERVER_ERROR, NULL, <<>>)
            /\ UNCHANGED <<roles, next_role_id>>
       ELSE /\ roles' = Insert(roles, next_role_id, row)
            /\ next_role_id' = next_role_id + 1
            /\ response' = Resp(HTTP_201_CREATED, next_role_id, <<>>)
    /\ UNCHANGED <<tasks, items, next_task_id, next_item_id, now, timelogs,
                   next_timelog_id>>

\* ---------------------------------------- task update, step by step
\* A worker handles PUT/PATCH /tasks/{pk}/ in two steps with other
\* requests in between: get_object and serializer.is_valid (with
\* validate_status, which reads the items of the task), then
\* serializer.save, which writes the Task row.  The handler opens no
\* transaction and takes no lock.
TaskUpdate_check(w, u, pk, method, data) ==
    LET denied == Task_get_object(u, pk, IsAssigner_Task(u, pk))
        partial == (method = "PATCH")
    IN
    /\ inflight[w].pc = "idle"
    /\ Clock
    /\ request' = Req("update", u, pk, method, data)
    /\ IF denied # 0
       THEN /\ response' = Resp(denied, NULL, <<>>)
            /\ UNCHANGED inflight
       ELSE IF ~TaskUpdateSerializer_is_valid(pk, data, partial)
       THEN /\ response' = Resp(HTTP_400_BAD_REQUEST, NULL, <<>>)
            /\ UNCHANGED inflight
       ELSE /\ response' = NoResponse
            /\ inflight' = [inflight EXCEPT ![w] =
                   [pc |-> "save_task", user |-> u, pk |-> pk,
                    method |-> method, data |-> data]]
    /\ UNCHANGED <<tasks, roles, items, next_task_id, next_role_id,
                   next_item_id, timelogs, next_timelog_id>>

\* serializer.save(): ModelSerializer.update sets the validated fields on
\* the instance loaded by get_object and saves it.
TaskUpdate_save(w) ==
    LET pk == inflight[w].pk
        validated_data == Validated(inflight[w].data, TASK_WRITABLE)
    IN
    /\ inflight[w].pc = "save_task"
    /\ pk \in TaskIds
    /\ request' = Req("update", inflight[w].user, pk, inflight[w].method,
                      inflight[w].data)
    /\ inflight' = [inflight EXCEPT ![w] = Idle]
    /\ tasks' = [tasks EXCEPT ![pk] =
          [f \in DOMAIN @ |->
              IF Has(validated_data, f) THEN validated_data[f] ELSE @[f]]]
    /\ response' = Resp(HTTP_200_OK, NULL, <<>>)
    /\ UNCHANGED <<roles, items, next_task_id, next_role_id, next_item_id,
                   now, timelogs, next_timelog_id>>

\* ---------------------------------------------------------- time logs
\* hours is a DecimalField with two decimal places: the model counts it in
\* hundredths of an hour.
\* MinValueValidator(0.01) compares the Decimal with the float 0.01, which
\* lies above the decimal 0.01 and below 0.02: the value passes from 0.02.
MinValueValidator_hours(hours) == hours >= 2

\* TimeLog.clean_fields: the rows the foreign keys name exist, hours
\* passes its validator and max_digits.
TimeLog_clean_fields(row) ==
    /\ UserExists(row.user)
    /\ row.task \in TaskIds
    /\ row.task_item # NULL => row.task_item \in ItemIds
    /\ MinValueValidator_hours(row.hours)
    /\ row.hours <= 99999

\* TimeLog.clean: FALSE when it raises ValidationError.  Called for a
\* task_item that exists: self.task_item loads the row.
TimeLog_clean(row) ==
    ~(row.task_item # NULL /\ items[row.task_item].task # row.task)

\* Model.full_clean as TimeLog.save calls it: 0 when the row is clean, else
\* the exception.  clean_fields collects its errors and clean() runs in any
\* case; loading a task_item that does not exist raises DoesNotExist, which
\* full_clean does not catch.
TimeLog_full_clean(row) ==
    IF row.task_item # NULL /\ row.task_item \notin ItemIds
    THEN DoesNotExist
    ELSE IF TimeLog_clean_fields(row) /\ TimeLog_clean(row)
    THEN 0
    ELSE ValidationError

\* Primary keys of TimeLog rows a caller can hold, and the rows it saves
TimeLogPks == {1}
TimeLogInputs ==
    { [user |-> 1, task |-> 1, task_item |-> NULL, hours |-> 100],
      [user |-> 1, task |-> 1, task_item |-> 1, hours |-> 100],
      [user |-> 2, task |-> 2, task_item |-> 1, hours |-> 150],
      [user |-> 2, task |-> 2, task_item |-> NULL, hours |-> 1],
      [user |-> 1, task |-> 1, task_item |-> 2, hours |-> 100],
      [user |-> NoSuchUser, task |-> 1, task_item |-> NULL, hours |-> 100] }

\* TimeLog.save of a new instance (pk = NULL) or of the loaded instance pk
\* with its fields set to row: full_clean, then super().save().
TimeLog_save(pk, row) ==
    LET raised == TimeLog_full_clean(row)
        id == IF pk = NULL THEN next_timelog_id ELSE pk
    IN
    /\ IF pk = NULL THEN next_timelog_id <= MaxTimeLogs
                    ELSE pk \in TimeLogIds
    /\ request' = Req("timelog_save", NULL, pk, "NONE", row)
    /\ IF raised # 0
       THEN /\ response' = Resp(raised, NULL, <<>>)
            /\ UNCHANGED <<timelogs, next_timelog_id>>
       ELSE /\ timelogs' = Insert(timelogs, id, row)
            /\ next_timelog_id' = IF pk = NULL THEN next_timelog_id + 1
                                  ELSE next_timelog_id
            /\ response' = Resp(0, id, <<>>)
    /\ UNCHANGED <<tasks, roles, items, next_task_id, next_role_id,
                   next_item_id, now, inflight>>

\* The change form of TaskItemAdmin: task is one of its fields, so a staff
\* user can move the item pk to another existing task; the form saves the
\* item with TaskItem.save.  TimeLog rows are not looked at.
TaskItemAdmin_change(u, pk, task) ==
    /\ is_staff(u)
    /\ pk \in ItemIds
    /\ task \in TaskIds
    /\ request' = Req("admin_item_change", u, pk, "POST", [task |-> task])
    /\ items' = [items EXCEPT ![pk] = TaskItem_save([@ EXCEPT !.task = task])]
    /\ response' = Resp(HTTP_200_OK, NULL, <<>>)
    /\ UNCHANGED <<tasks, roles, next_task_id, next_role_id, next_item_id,
                   now, timelogs, next_timelog_id, inflight>>

\* ------------------------------------------------------------- progress
\* Reading task.progress_percentage
TaskProgress(t) ==
    /\ t \in TaskIds
    /\ request' = Req("progress_percentage", NULL, t, "NONE", <<>>)
    /\ response' = Resp(0, progress_percentage(t), <<>>)
    /\ UNCHANGED <<tasks, roles, items, next_task_id, next_role_id,
                   next_item_id, now, timelogs, next_timelog_id, inflight>>

\* A store with one task of user 1 that has total items, the first
\* completed of them completed.
InitProgress ==
    \E total \in 0..MaxTotal : \E completed \in 0..total :
        /\ now = 1
        /\ tasks = Insert(<<>>, 1, [title |-> "a", status |-> "new"])
        /\ roles = Insert(<<>>, 1,
                          [task |-> 1, user |-> 1, role |-> "assigner"])
        /\ items = [i \in 1..total |->
                       TaskItem_save(
                           NewItemRow(1, [title |-> "a",
                                          status |-> IF i <= completed
                                                     THEN "completed"
                                                     ELSE "todo"]))]
        /\ next_task_id = 2
        /\ next_role_id = 2
        /\ next_item_id = total + 1
        /\ request = NoRequest
        /\ response = NoResponse
        /\ timelogs = <<>>
        /\ next_timelog_id = 1
        /\ inflight = [w \in Workers |-> Idle]

Init ==
    /\ tasks = <<>>
    /\ roles = <<>>
    /\ items = <<>>
    /\ next_task_id = 1
    /\ next_role_id = 1
    /\ next_item_id = 1
    /\ now = 1
    /\ request = NoRequest
    /\ response = NoResponse
    /\ timelogs = <<>>
    /\ next_timelog_id = 1
    /\ inflight = [w \in Workers |-> Idle]

Next ==
    \/ \E u \in Users, data \in TaskCreateInputs : TaskCreate(u, data)
    \/ \E u \in Users, pk \in TaskPks, in \in TaskUpdateInputs :
           TaskUpdate(u, pk, in[1], in[2])
    \/ \E u \in Users, pk \in TaskPks : TaskDestroy(u, pk)
    \/ \E u \in Users, pk \in TaskPks : TaskRetrieve(u, pk)
    \/ \E u \in Users : TaskList(u)
    \/ \E u \in Users : my(u)
    \/ \E u \in Users, pk \in TaskPks, data \in AddRoleInputs :
           add_role(u, pk, data)
    \/ \E u \in Users, pk \in TaskPks, role_id \in RolePks :
           remove_role(u, pk, role_id)
    \/ \E u \in Users, pk \in TaskPks, data \in AddItemInputs :
           add_item(u, pk, data)
    \/ \E u \in Users, pk \in ItemPks, in \in ItemUpdateInputs :
           TaskItemUpdate(u, pk, in[1], in[2])
    \/ \E u \in Users, pk \in ItemPks : TaskItemDestroy(u, pk)
    \/ \E u \in Users, pk \in ItemPks : TaskItemRetrieve(u, pk)

Spec == Init /\ [][Next]_vars

\* Two workers handling add_role requests at the same time, on tasks
\* created before.
NextConcurrent ==
    \/ \E u \in Users, data \in TaskCreateInputs : TaskCreate(u, data)
    \/ \E w \in Workers, u \in Users, pk \in TaskPks,
          data \in AddRoleInputs : add_role_check(w, u, pk, data)
    \/ \E w \in Workers : add_role_save(w)

SpecConcurrent == Init /\ [][NextConcurrent]_vars

\* The store with its time logs: tasks and items come and go through the
\* API, time logs are saved through TimeLog.save, items are edited in the
\* admin.
TimeLogTaskInputs ==
    { [title |-> "a"],
      [title |-> "a", task_items |-> << [title |-> "a", executor_id |-> 2] >>] }

NextTimeLogs ==
    \/ \E u \in Users, data \in TimeLogTaskInputs : TaskCreate(u, data)
    \/ \E u \in Users, pk \in TaskPks : TaskDestroy(u, pk)
    \/ \E u \in Users, pk \in ItemPks : TaskItemDestroy(u, pk)
    \/ \E pk \in TimeLogPks \cup {NULL}, row \in TimeLogInputs :
           TimeLog_save(pk, row)
    \/ \E u \in Users, pk \in ItemPks, task \in TaskPks :
           TaskItemAdmin_change(u, pk, task)

SpecTimeLogs == Init /\ [][NextTimeLogs]_vars

\* The item requests on tasks that have several items and executors who
\* hold no role.
ItemTaskInputs ==
    { [title |-> "a", task_items |-> << [title |-> "a", executor_id |-> 2],
                                        [title |-> "a"] >>],
      [title |-> "a", task_items |-> << [title |-> "a", executor_id |-> 2,
                                         status |-> "completed"] >>],
      [title |-> "a", co_executors |-> <<2>>] }
MoreItemUpdateInputs ==
    ItemUpdateInputs \cup
        { <<"PATCH", [title |-> "b"]>>,
          <<"PATCH", [title |-> "b", completed_at |-> 0]>>,
          <<"PATCH", [executor_id |-> 1, planned_hours |-> 8, order |-> 3]>> }

NextItems ==
    \/ \E u \in Users, data \in ItemTaskInputs : TaskCreate(u, data)
    \/ \E u \in Users, pk \in TaskPks, data \in AddItemInputs :
           add_item(u, pk, data)
    \/ \E u \in Users, pk \in ItemPks, in \in MoreItemUpdateInputs :
           TaskItemUpdate(u, pk, in[1], in[2])
    \/ \E u \in Users, pk \in ItemPks : TaskItemDestroy(u, pk)
    \/ \E u \in Users, pk \in ItemPks : TaskItemRetrieve(u, pk)

SpecItems == Init /\ [][NextItems]_vars

\* A task update in two steps while items of the task are added and
\* updated by other requests.
NextCompletion ==
    \/ \E u \in Users, data \in ItemTaskInputs : TaskCreate(u, data)
    \/ \E w \in Workers, u \in Users, pk \in TaskPks,
          in \in TaskUpdateInputs :
           TaskUpdate_check(w, u, pk, in[1], in[2])
    \/ \E w \in Workers : TaskUpdate_save(w)
    \/ \E u \in Users, pk \in TaskPks, data \in AddItemInputs :
           add_item(u, pk, data)
    \/ \E u \in Users, pk \in ItemPks, in \in ItemUpdateInputs :
           TaskItemUpdate(u, pk, in[1], in[2])

SpecCompletion == Init /\ [][NextCompletion]_vars

\* progress_percentage applied to tasks of every size up to MaxTotal
NextProgress == \E t \in TaskPks : TaskProgress(t)

SpecProgress == InitProgress /\ [][NextProgress]_vars

\* ============================================================== claims
\* C1: every existing Task has exactly one TaskRole with role=assigner.
C1_ExactlyOneAssigner ==
    \A t \in TaskIds :
        Cardinality({r \in RolesOf(t) : roles[r].role = "assigner"}) = 1

\* C2: an add-role request with role=assigner on a task that already has an
\* assigner, sent by an actor the assigner check lets through, is answered
\* 400 and leaves the TaskRole rows as they were.
C2_SecondAssignerRejected ==
    [][ ( /\ request'.op = "add_role"
          /\ Get(request'.data, "role", "") = "assigner"
          /\ request'.pk \in TaskIds
          /\ \E r \in RolesOf(request'.pk) : roles[r].role = "assigner"
          /\ Task_get_object(request'.user, request'.pk,
                             IsAssigner_Task(request'.user, request'.pk)) = 0 )
        => ( /\ response'.code = HTTP_400_BAD_REQUEST
             /\ roles' = roles ) ]_vars

\* C3: for an actor who is executor of a TaskItem and neither staff nor the
\* task's assigner, an update of the item is permitted (not answered 403 or
\* 404) exactly when the fields of the request are a subset of {status},
\* and a delete is answered 403.
C3_ExecutorStatusOnly ==
    [][ LET u == request'.user
            i == request'.pk
        IN  ( /\ request'.op \in {"item_update", "item_destroy"}
              /\ i \in ItemIds
              /\ items[i].executor = u
              /\ ~is_staff(u)
              /\ ~\E r \in RolesOf(items[i].task) :
                     roles[r].user = u /\ roles[r].role = "assigner" )
            => IF request'.op = "item_update"
               THEN /\ request'.method \in {"PATCH", "PUT"}
                    /\ (response'.code \notin {HTTP_403_FORBIDDEN,
                                               HTTP_404_NOT_FOUND})
                       <=> (DOMAIN request'.data \subseteq {"status"})
                    /\ ~(DOMAIN request'.data \subseteq {"status"})
                       => (response'.code = HTTP_403_FORBIDDEN
                           /\ items' = items)
               ELSE response'.code = HTTP_403_FORBIDDEN /\ items' = items
      ]_vars

\* C3 witness: an executor who is neither staff nor assigner has just
\* changed the status of the item with a request that names status only.
C3_Witness ==
    /\ request.op = "item_update"
    /\ DOMAIN request.data = {"status"}
    /\ response.code = HTTP_200_OK
    /\ request.pk \in ItemIds
    /\ items[request.pk].executor = request.user
    /\ items[request.pk].status = request.data["status"]
    /\ ~is_staff(request.user)
    /\ ~\E r \in RolesOf(items[request.pk].task) :
           roles[r].user = request.user /\ roles[r].role = "assigner"

\* C4: a stored TaskItem has completed_at set exactly when its status is
\* completed.
C4_CompletedAtIffCompleted ==
    \A i \in ItemIds :
        (items[i].completed_at # NULL) <=> (items[i].status = "completed")

\* C4 witness: an item update has just moved an item to completed and the
\* item carries the time of that request.
C4_Witness ==
    /\ request.op = "item_update"
    /\ response.code = HTTP_200_OK
    /\ Get(request.data, "status", "") = "completed"
    /\ request.pk \in ItemIds
    /\ items[request.pk].status = "completed"
    /\ items[request.pk].completed_at = now - 1

\* C5: a task update that sets status=completed while k > 0 items of the
\* task are not completed never succeeds and leaves the task row as it
\* was; once the actor passed the assigner check the answer is 400 and
\* carries k.
C5_CompletionGated ==
    [][ LET t == request'.pk
            k == Cardinality({i \in ItemsOf(t) :
                                 items[i].status # "completed"})
        IN  ( /\ request'.op = "update"
              /\ Get(request'.data, "status", "") = "completed"
              /\ t \in TaskIds
              /\ k > 0 )
            => /\ tasks' = tasks
               /\ response'.code # HTTP_200_OK
               /\ (Task_get_object(request'.user, t,
                                   IsAssigner_Task(request'.user, t)) = 0)
                  => ( /\ response'.code = HTTP_400_BAD_REQUEST
                       /\ response'.detail = k )
      ]_vars

\* C5 witness: the assigner asked to complete a task that has a completed
\* and a not completed item and was answered 400 with the count 1.
C5_Witness ==
    /\ request.op = "update"
    /\ Get(request.data, "status", "") = "completed"
    /\ response.code = HTTP_400_BAD_REQUEST
    /\ response.detail = 1
    /\ request.pk \in TaskIds
    /\ tasks[request.pk].status # "completed"
    /\ \E i \in ItemsOf(request.pk) : items[i].status = "completed"
    /\ Cardinality({i \in ItemsOf(request.pk) :
                       items[i].status # "completed"}) = 1

\* C6: the task list returned to a user holds a Task exactly when the user
\* holds a TaskRole on it or executes one of its TaskItems, and holds it
\* once.
C6_ListIsParticipantTasksOnce ==
    request.op \in {"list", "my"} =>
        /\ response.code = HTTP_200_OK
        /\ \A k \in DOMAIN response.results : response.results[k] \in TaskIds
        /\ \A t \in TaskIds :
               Cardinality({k \in DOMAIN response.results :
                               response.results[k] = t})
               = IF \/ \E r \in RoleIds : roles[r].task = t
                                          /\ roles[r].user = request.user
                    \/ \E i \in ItemIds : items[i].task = t
                                          /\ items[i].executor = request.user
                 THEN 1 ELSE 0

\* C6 witness: a user who is tied to task t by a role and by an item, and
\* to no other of the existing tasks, has listed the tasks and got <<t>>.
C6_Witness ==
    /\ request.op = "list"
    /\ \E t \in TaskIds :
          /\ response.results = <<t>>
          /\ \E r \in RolesOf(t) : roles[r].user = request.user
          /\ \E i \in ItemsOf(t) : items[i].executor = request.user
          /\ \E t2 \in TaskIds \ {t} :
                /\ ~\E r \in RolesOf(t2) : roles[r].user = request.user
                /\ ~\E i \in ItemsOf(t2) : items[i].executor = request.user

C8_ForbiddenVersusNotFound ==
    [][ LET u == request'.user
            t == request'.pk
            visible == \/ \E r \in RolesOf(t) : roles[r].user = u
                       \/ \E i \in ItemsOf(t) : items[i].executor = u
            isassigner == \E r \in RolesOf(t) :
                              roles[r].user = u /\ roles[r].role = "assigner"
        IN  ( /\ request'.op \in {"update", "destroy", "add_role",
                                  "remove_role", "add_item"}
              /\ ~is_staff(u)
              /\ t \in TaskIds )
            => /\ (visible /\ ~isassigner)
                      => response'.code = HTTP_403_FORBIDDEN
               /\ ~visible => response'.code = HTTP_404_NOT_FOUND
      ]_vars

\* C8 witness: a co-executor or observer who is not the assigner has sent
\* an add-item request and was answered 403.
C8_Witness ==
    /\ request.op = "add_item"
    /\ response.code = HTTP_403_FORBIDDEN
    /\ ~is_staff(request.user)
    /\ request.pk \in TaskIds
    /\ \E r \in RolesOf(request.pk) :
           roles[r].user = request.user
           /\ roles[r].role \in {"co_executor", "observer"}
    /\ ~\E r \in RolesOf(request.pk) :
           roles[r].user = request.user /\ roles[r].role = "assigner"

\* C9: the participant check on a Task is true exactly for staff, holders
\* of any role on the task and executors of any of its items, and on a
\* TaskItem it answers as on the item's Task.
C9_ParticipantCheck ==
    \A u \in Users :
        /\ \A t \in TaskIds :
               IsTaskParticipant_Task(u, t)
               <=> \/ u \in StaffUsers
                   \/ \E r \in RoleIds :
                          /\ roles[r].task = t /\ roles[r].user = u
                          /\ roles[r].role \in
                                 {"assigner", "co_executor", "observer"}
                   \/ \E i \in ItemIds :
                          items[i].task = t /\ items[i].executor = u
        /\ \A i \in ItemIds :
               IsTaskParticipant_TaskItem(u, i)
               <=> IsTaskParticipant_Task(u, items[i].task)

\* C9 witness: a non-staff user with no role on the task, who executes one
\* of its items, has retrieved the task.
C9_Witness ==
    /\ request.op = "retrieve"
    /\ response.code = HTTP_200_OK
    /\ ~is_staff(request.user)
    /\ request.pk \in TaskIds
    /\ ~\E r \in RolesOf(request.pk) : roles[r].user = request.user
    /\ \E i \in ItemsOf(request.pk) : items[i].executor = request.user
    /\ IsTaskParticipant_Task(request.user, request.pk)

\* C10: the assigner check on a Task is true exactly for staff and for the
\* holder of the task's assigner role.
C10_AssignerCheck ==
    \A u \in Users : \A t \in TaskIds :
        IsAssigner_Task(u, t)
        <=> \/ u \in StaffUsers
            \/ \E r \in RoleIds : /\ roles[r].task = t
                                  /\ roles[r].user = u
                                  /\ roles[r].role = "assigner"

\* C10 witness: a non-staff user who is co-executor of the task and executor
\* of one of its items, and not its assigner, fails the check: their delete
\* request was answered 403.
C10_Witness ==
    /\ request.op = "destroy"
    /\ response.code = HTTP_403_FORBIDDEN
    /\ ~is_staff(request.user)
    /\ request.pk \in TaskIds
    /\ \E r \in RolesOf(request.pk) :
           roles[r].user = request.user /\ roles[r].role = "co_executor"
    /\ \E i \in ItemsOf(request.pk) : items[i].executor = request.user
    /\ ~IsAssigner_Task(request.user, request.pk)

\* C11: a remove-role request that targets the assigner role of the task
\* leaves the role row in place and, once the actor passed the assigner
\* check, is answered 400; a remove-role request by the assigner that
\* targets a co_executor or observer role of the task deletes exactly that
\* row. An assigner role disappears only when its Task is deleted.
C11_RemoveRole ==
    [][ /\ \A r \in RoleIds :
             (roles[r].role = "assigner" /\ r \notin DOMAIN roles')
                 => roles[r].task \notin DOMAIN tasks'
        /\ LET u == request'.user
               t == request'.pk
               r == Get(request'.data, "role_id", NULL)
           IN  ( /\ request'.op = "remove_role"
                 /\ t \in TaskIds
                 /\ r \in RoleIds
                 /\ roles[r].task = t )
               => /\ roles[r].role = "assigner"
                     => /\ roles' = roles
                        /\ response'.code # HTTP_204_NO_CONTENT
                        /\ (Task_get_object(u, t, IsAssigner_Task(u, t)) = 0)
                           => response'.code = HTTP_400_BAD_REQUEST
                  /\ ( /\ roles[r].role \in {"co_executor", "observer"}
                       /\ \E a \in RolesOf(t) :
                              roles[a].user = u /\ roles[a].role = "assigner" )
                     => /\ roles' = Delete(roles, {r})
                        /\ response'.code = HTTP_204_NO_CONTENT
      ]_vars

\* C11 witness: the assigner asked to remove the assigner role of the task,
\* was answered 400, and the role is still there.
C11_Witness ==
    /\ request.op = "remove_role"
    /\ response.code = HTTP_400_BAD_REQUEST
    /\ request.data["role_id"] \in RoleIds
    /\ roles[request.data["role_id"]].role = "assigner"
    /\ roles[request.data["role_id"]].task = request.pk
    /\ roles[request.data["role_id"]].user = request.user

\* C12: a successful task creation by user U with co-executor list C,
\* observer list O and item-definition list I adds exactly one Task,
\* exactly 1 + |C| + |O| TaskRole rows (one assigner role for U, one
\* co_executor role per entry of C, one observer role per entry of O) and
\* exactly |I| TaskItem rows, where the item built from the definition at
\* input position i has order = i (counting from 0); the rows that existed
\* before stay as they were.
C12_CreateAddsRows ==
    [][ LET U == request'.user
            C == Get(request'.data, "co_executors", <<>>)
            O == Get(request'.data, "observers", <<>>)
            I == Get(request'.data, "task_items", <<>>)
            new_tasks == DOMAIN tasks' \ DOMAIN tasks
            new_roles == DOMAIN roles' \ DOMAIN roles
            new_items == DOMAIN items' \ DOMAIN items
            WithRole(role) == {r \in new_roles : roles'[r].role = role}
        IN  ( /\ request'.op = "create"
              /\ response'.code = HTTP_201_CREATED )
            => /\ Cardinality(new_tasks) = 1
               /\ new_tasks = {response'.detail}
               /\ \A t \in DOMAIN tasks : t \in DOMAIN tasks' /\ tasks'[t] = tasks[t]
               /\ \A r \in DOMAIN roles : r \in DOMAIN roles' /\ roles'[r] = roles[r]
               /\ \A i \in DOMAIN items : i \in DOMAIN items' /\ items'[i] = items[i]
               /\ Cardinality(new_roles) = 1 + Len(C) + Len(O)
               /\ \A r \in new_roles : roles'[r].task = response'.detail
               /\ Cardinality(WithRole("assigner")) = 1
               /\ \A r \in WithRole("assigner") : roles'[r].user = U
               /\ Cardinality(WithRole("co_executor")) = Len(C)
               /\ {roles'[r].user : r \in WithRole("co_executor")} =
                      {C[k] : k \in 1..Len(C)}
               /\ Cardinality(WithRole("observer")) = Len(O)
               /\ {roles'[r].user : r \in WithRole("observer")} =
                      {O[k] : k \in 1..Len(O)}
               /\ Cardinality(new_items) = Len(I)
               /\ \A k \in 1..Len(I) :
                      LET i == next_item_id + k - 1
                      IN  /\ i \in new_items
                          /\ items'[i].task = response'.detail
                          /\ items'[i].order = k - 1
                          /\ items'[i].title = I[k].title
                          /\ items'[i].status = Get(I[k], "status", "todo")
                          /\ items'[i].executor = Get(I[k], "executor_id", NULL)
      ]_vars

\* C12 witness: a creation with two co-executors, one observer and two
\* item definitions was answered 201 and the task has its items at orders
\* 0 and 1.
C12_Witness ==
    /\ request.op = "create"
    /\ response.code = HTTP_201_CREATED
    /\ Len(Get(request.data, "co_executors", <<>>)) = 2
    /\ Len(Get(request.data, "task_items", <<>>)) = 2
    /\ {items[i].order : i \in ItemsOf(response.detail)} = {0, 1}
    /\ Cardinality(RolesOf(response.detail)) = 4

\* C13: task creation is all-or-nothing: if a step fails after the Task row
\* was written (a co-executor or observer id that names no user, the same
\* id twice in one list, or an item definition that cannot be stored), the
\* creation does not succeed, and after a creation that did not succeed no
\* Task, TaskRole or TaskItem row of that request persists: the store
\* equals its state before the request.
C13_CreateAllOrNothing ==
    [][ LET C == Get(request'.data, "co_executors", <<>>)
            O == Get(request'.data, "observers", <<>>)
            I == Get(request'.data, "task_items", <<>>)
            NoUser(L) == \E k \in 1..Len(L) : L[k] \notin Users
            Twice(L) == \E k, l \in 1..Len(L) : k # l /\ L[k] = L[l]
            NotStorable(d) ==
                \/ Has(d, "order")
                \/ (Has(d, "executor_id") /\ d["executor_id"] # NULL
                       /\ d["executor_id"] \notin Users)
            fails == \/ NoUser(C) \/ NoUser(O) \/ Twice(C) \/ Twice(O)
                     \/ \E k \in 1..Len(I) : NotStorable(I[k])
        IN  request'.op = "create"
            => /\ fails => response'.code # HTTP_201_CREATED
               /\ response'.code # HTTP_201_CREATED
                  => /\ tasks' = tasks
                     /\ roles' = roles
                     /\ items' = items
      ]_vars

\* C13 witness: a creation whose data passed validation failed on a later
\* INSERT, while the store already holds rows of an earlier request.
C13_Witness ==
    /\ request.op = "create"
    /\ response.code = HTTP_500_SERVER_ERROR
    /\ TaskCreateSerializer_is_valid(request.data)
    /\ TaskIds # {}
    /\ \A r \in RoleIds : roles[r].task \in TaskIds

\* C14 as stated: a successful task creation with two co-executors, one
\* observer and two item definitions produces exactly 3 TaskRole rows and
\* 2 TaskItem rows, with item order equal to input position (0, 1).
C14_ThreeRoles ==
    [][ ( /\ request'.op = "create"
          /\ response'.code = HTTP_201_CREATED
          /\ Len(Get(request'.data, "co_executors", <<>>)) = 2
          /\ Len(Get(request'.data, "observers", <<>>)) = 1
          /\ Len(Get(request'.data, "task_items", <<>>)) = 2 )
        => /\ Cardinality(DOMAIN roles' \ DOMAIN roles) = 3
           /\ Cardinality(DOMAIN items' \ DOMAIN items) = 2
           /\ items'[next_item_id].order = 0
           /\ items'[next_item_id + 1].order = 1
      ]_vars

\* C14: a successful task creation with two co-executors, one observer and
\* two item definitions produces exactly 4 TaskRole rows (the assigner role
\* of the creator, two co_executor roles, one observer role) and 2
\* TaskItem rows, with item order equal to input position (0, 1).
C14_FourRoles ==
    [][ ( /\ request'.op = "create"
          /\ response'.code = HTTP_201_CREATED
          /\ Len(Get(request'.data, "co_executors", <<>>)) = 2
          /\ Len(Get(request'.data, "observers", <<>>)) = 1
          /\ Len(Get(request'.data, "task_items", <<>>)) = 2 )
        => /\ Cardinality(DOMAIN roles' \ DOMAIN roles) = 4
           /\ Cardinality({r \in DOMAIN roles' \ DOMAIN roles :
                              roles'[r].role = "assigner"}) = 1
           /\ Cardinality({r \in DOMAIN roles' \ DOMAIN roles :
                              roles'[r].role = "co_executor"}) = 2
           /\ Cardinality({r \in DOMAIN roles' \ DOMAIN roles :
                              roles'[r].role = "observer"}) = 1
           /\ Cardinality(DOMAIN items' \ DOMAIN items) = 2
           /\ items'[next_item_id].order = 0
           /\ items'[next_item_id + 1].order = 1
      ]_vars

\* C14 witness: the task just created from two co-executors, one observer
\* and two item definitions has four roles and two items.
C14_Witness ==
    /\ request.op = "create"
    /\ response.code = HTTP_201_CREATED
    /\ Len(Get(request.data, "co_executors", <<>>)) = 2
    /\ Len(Get(request.data, "observers", <<>>)) = 1
    /\ Len(Get(request.data, "task_items", <<>>)) = 2
    /\ Cardinality(RolesOf(response.detail)) = 4
    /\ Cardinality(ItemsOf(response.detail)) = 2

\* C16: no two TaskRole rows share the same (task, user, role) triple: an
\* add-role request or a creation that would duplicate a triple does not
\* succeed and leaves the rows unchanged.
C16_UniqueTriple ==
    [][ /\ \A r1, r2 \in DOMAIN roles' :
               ( /\ roles'[r1].task = roles'[r2].task
                 /\ roles'[r1].user = roles'[r2].user
                 /\ roles'[r1].role = roles'[r2].role ) => r1 = r2
        /\ ( /\ request'.op = "add_role"
             /\ \E r \in RoleIds :
                    /\ roles[r].task = request'.pk
                    /\ roles[r].user = Get(request'.data, "user_id", NULL)
                    /\ roles[r].role = Get(request'.data, "role", "") )
           => (response'.code # HTTP_201_CREATED /\ roles' = roles)
        /\ ( /\ request'.op = "create"
             /\ \E L \in {Get(request'.data, "co_executors", <<>>),
                           Get(request'.data, "observers", <<>>)} :
                    \E k, l \in 1..Len(L) : k # l /\ L[k] = L[l] )
           => (response'.code # HTTP_201_CREATED /\ roles' = roles)
      ]_vars

\* C16 witness: an add-role request that repeats a triple of the task was
\* let through by the assigner check and failed, on a task where one user
\* holds two different roles and two users hold co_executor.
C16_Witness ==
    /\ request.op = "add_role"
    /\ response.code = HTTP_500_SERVER_ERROR
    /\ \E r \in RolesOf(request.pk) :
           /\ roles[r].user = request.data["user_id"]
           /\ roles[r].role = request.data["role"]
    /\ \E r1, r2 \in RolesOf(request.pk) :
           roles[r1].user = roles[r2].user /\ roles[r1].role # roles[r2].role
    /\ \E r1, r2 \in RolesOf(request.pk) :
           /\ roles[r1].user # roles[r2].user
           /\ roles[r1].role = "co_executor"
           /\ roles[r2].role = "co_executor"

\* C15: when two add-role requests with role=assigner for the same task
\* are in flight at the same time, both past their checks and before their
\* writes, the write of either does not leave the task with two assigner
\* roles.
C15_ConcurrentAssigner ==
    [][ \A w1, w2 \in Workers :
          ( /\ w1 # w2
            /\ inflight[w1].pc = "save"
            /\ inflight[w2].pc = "save"
            /\ inflight[w1].pk = inflight[w2].pk
            /\ inflight[w1].data["role"] = "assigner"
            /\ inflight[w2].data["role"] = "assigner"
            /\ inflight'[w1].pc = "idle" )
          => Cardinality({r \in DOMAIN roles' :
                             /\ roles'[r].task = inflight[w1].pk
                             /\ roles'[r].role = "assigner"}) <= 1
      ]_vars

\* C17: every persisted TimeLog that has a task_item satisfies
\* task_item.task = task.
C17_TimeLogItemOfTask ==
    \A l \in TimeLogIds :
        (timelogs[l].task_item # NULL /\ timelogs[l].task_item \in ItemIds)
            => items[timelogs[l].task_item].task = timelogs[l].task

\* C18: deleting a Task deletes every TaskRole, TaskItem and TimeLog that
\* references it and deleting a TaskItem deletes every TimeLog that
\* references it: each TaskRole, TaskItem and TimeLog references a Task
\* (and, when set, a TaskItem) that exists.
C18_CascadeOnDelete ==
    /\ \A r \in RoleIds : roles[r].task \in TaskIds
    /\ \A i \in ItemIds : items[i].task \in TaskIds
    /\ \A l \in TimeLogIds :
           /\ timelogs[l].task \in TaskIds
           /\ timelogs[l].task_item # NULL => timelogs[l].task_item \in ItemIds

\* C18 witness: a task that had a role, an item and a time log has just
\* been deleted and none of the three is left.
C18_Witness ==
    /\ request.op = "destroy"
    /\ response.code = HTTP_204_NO_CONTENT
    /\ next_item_id > 1
    /\ next_timelog_id > 1
    /\ TaskIds = {}
    /\ RoleIds = {} /\ ItemIds = {} /\ TimeLogIds = {}

\* C19 as stated: progress_percentage is 0 when the task has no items and
\* otherwise 100 * completed / total rounded to 2 decimal places with
\* half-up rounding, and lies between 0 and 100.
C19_HalfUp ==
    request.op = "progress_percentage" =>
        LET total == Cardinality(ItemsOf(request.pk))
            completed == Cardinality({i \in ItemsOf(request.pk) :
                                         items[i].status = "completed"})
        IN  /\ total = 0 => response.detail = 0
            /\ total > 0 =>
                   response.detail =
                       (20000 * completed + total) \div (2 * total)
            /\ response.detail \in 0..10000

\* C19: progress_percentage is 0 when the task has no items and otherwise
\* the multiple of 0.01 nearest to 100 * completed / total, the one with
\* the even last digit when two are equally near; total = 3 gives 33.33
\* for one and 66.67 for two completed items; the result lies between 0
\* and 100.
C19_HalfEven ==
    request.op = "progress_percentage" =>
        LET total == Cardinality(ItemsOf(request.pk))
            completed == Cardinality({i \in ItemsOf(request.pk) :
                                         items[i].status = "completed"})
            p == response.detail
            d == p * total - 10000 * completed
        IN  /\ total = 0 => p = 0
            /\ total > 0 =>
                   /\ 2 * d <= total /\ -2 * d <= total
                   /\ (2 * d = total \/ -2 * d = total) => p % 2 = 0
            /\ (total = 3 /\ completed = 1) => p = 3333
            /\ (total = 3 /\ completed = 2) => p = 6667
            /\ p \in 0..10000

\* C19 witness: one of 32 items is completed, the quotient 3.125 is half
\* way, and the progress read is 3.12.
C19_Witness ==
    /\ request.op = "progress_percentage"
    /\ Cardinality(ItemsOf(request.pk)) = 32
    /\ Cardinality({i \in ItemsOf(request.pk) :
                       items[i].status = "completed"}) = 1
    /\ response.detail = 312

\* C20: a task update, delete, add-role, remove-role or add-item request
\* on an existing task is permitted (not answered 403, and not answered
\* 404 for the task) whenever the assigner check passes for the actor on
\* the task, also for a staff actor who holds no role on the task and
\* executes none of its items.
C20_AssignerCheckPermits ==
    [][ LET u == request'.user
            t == request'.pk
            role_id == Get(request'.data, "role_id", NULL)
        IN  ( /\ request'.op \in {"update", "destroy", "add_role",
                                  "remove_role", "add_item"}
              /\ t \in TaskIds
              /\ IsAssigner_Task(u, t) )
            => /\ response'.code # HTTP_403_FORBIDDEN
               /\ response'.code = HTTP_404_NOT_FOUND
                  => /\ request'.op = "remove_role"
                     /\ ~(role_id \in RoleIds /\ roles[role_id].task = t)
      ]_vars

\* C21: a retrieve request for an existing TaskItem is permitted (answered
\* 200) for exactly the actors that pass the participant check on the
\* item's parent Task, also for a user whose only link to the task is
\* being executor of another item of the task.
C21_ItemRetrieveParticipants ==
    [][ ( /\ request'.op = "item_retrieve"
          /\ request'.pk \in ItemIds )
        => ( response'.code = HTTP_200_OK
             <=> IsTaskParticipant_Task(request'.user,
                                        items[request'.pk].task) )
      ]_vars

\* C22: a non-staff user whose only link to a task is a co_executor or
\* observer role (not its assigner, not executor of any of its items)
\* changes nothing of that task with any request: the Task row, its
\* TaskRole rows and its TaskItem rows stay as they were, so the user's
\* link stays the same for the next request; a retrieve of the task by
\* this user is answered 200 and a list holds the task.
C22_SecondaryRolesReadOnly ==
    [][ LET u == request'.user
        IN  \A t \in TaskIds :
              ( /\ request'.op # "none"
                /\ u \in Users
                /\ ~is_staff(u)
                /\ \E r \in RolesOf(t) : roles[r].user = u
                /\ \A r \in RolesOf(t) :
                       roles[r].user = u
                           => roles[r].role \in {"co_executor", "observer"}
                /\ \A i \in ItemsOf(t) : items[i].executor # u )
              => /\ t \in DOMAIN tasks' /\ tasks'[t] = tasks[t]
                 /\ {r \in DOMAIN roles' : roles'[r].task = t} = RolesOf(t)
                 /\ \A r \in RolesOf(t) : roles'[r] = roles[r]
                 /\ {i \in DOMAIN items' : items'[i].task = t} = ItemsOf(t)
                 /\ \A i \in ItemsOf(t) : items'[i] = items[i]
                 /\ (request'.op = "retrieve" /\ request'.pk = t)
                        => response'.code = HTTP_200_OK
                 /\ request'.op \in {"list", "my"}
                        => \E k \in 1..Len(response'.results) :
                               response'.results[k] = t
      ]_vars

\* C22 witness: a user who is co-executor and observer of a task, and
\* nothing else on it, asked to change one of its items and was answered
\* 403.
C22_Witness ==
    /\ request.op \in {"item_update", "item_destroy"}
    /\ response.code = HTTP_403_FORBIDDEN
    /\ request.pk \in ItemIds
    /\ ~is_staff(request.user)
    /\ \E r \in RolesOf(items[request.pk].task) : roles[r].user = request.user
    /\ \A r \in RolesOf(items[request.pk].task) :
           roles[r].user = request.user
               => roles[r].role \in {"co_executor", "observer"}
    /\ \A i \in ItemsOf(items[request.pk].task) :
           items[i].executor # request.user

\* C23: a successful TaskItem update sent by an actor who is the item's
\* executor and neither staff nor the task's assigner changes nothing but
\* the status and the completed_at of that one item: its title, executor,
\* planned_hours and order, every other TaskItem, every Task, every
\* TaskRole and every TimeLog are unchanged.
C23_ExecutorUpdateFrame ==
    [][ LET u == request'.user
            i == request'.pk
        IN  ( /\ request'.op = "item_update"
              /\ response'.code = HTTP_200_OK
              /\ i \in ItemIds
              /\ items[i].executor = u
              /\ ~is_staff(u)
              /\ ~\E r \in RolesOf(items[i].task) :
                     roles[r].user = u /\ roles[r].role = "assigner" )
            => /\ DOMAIN items' = DOMAIN items
               /\ \A j \in ItemIds \ {i} : items'[j] = items[j]
               /\ \A f \in {"task", "title", "executor", "planned_hours",
                              "order"} : items'[i][f] = items[i][f]
               /\ tasks' = tasks
               /\ roles' = roles
               /\ timelogs' = timelogs
      ]_vars

\* C23 witness: a user who is executor of one of two items of a task and
\* holds no role on it has just completed that item; the sibling item is
\* still to do.
C23_Witness ==
    /\ request.op = "item_update"
    /\ response.code = HTTP_200_OK
    /\ request.pk \in ItemIds
    /\ items[request.pk].executor = request.user
    /\ ~is_staff(request.user)
    /\ ~\E r \in RolesOf(items[request.pk].task) : roles[r].user = request.user
    /\ items[request.pk].status = "completed"
    /\ items[request.pk].completed_at = now - 1
    /\ \E j \in ItemsOf(items[request.pk].task) :
           j # request.pk /\ items[j].status = "todo"

\* C24: every request that ends in a validation failure (400), an access
\* denial (403) or a not-found answer (404), on task create, update,
\* delete, add-role, remove-role, add-item, item update and item delete,
\* leaves all Task, TaskRole, TaskItem and TimeLog rows as they were.
C24_FailuresChangeNothing ==
    [][ ( /\ request'.op \in {"create", "update", "destroy", "add_role",
                                "remove_role", "add_item", "item_update",
                                "item_destroy"}
          /\ response'.code \in {HTTP_400_BAD_REQUEST, HTTP_403_FORBIDDEN,
                                  HTTP_404_NOT_FOUND} )
        => /\ tasks' = tasks
           /\ roles' = roles
           /\ items' = items
           /\ timelogs' = timelogs
      ]_vars

\* C24 witness: the assigner of a task that has roles and items sent an
\* add-item request that failed validation.
C24_Witness ==
    /\ request.op = "add_item"
    /\ response.code = HTTP_400_BAD_REQUEST
    /\ request.pk \in TaskIds
    /\ assigner(request.pk) = request.user
    /\ ItemsOf(request.pk) # {}

\* C25: from the request that creates a Task until the task is deleted,
\* assigner(task) is the user who created it, whatever add-role,
\* remove-role, update and item requests are made by whatever actors; and
\* assigner(task) is none exactly for a task without an assigner role.
C25_AssignerIsCreator ==
    [][ /\ ( request'.op = "create" /\ response'.code = HTTP_201_CREATED )
           => /\ DOMAIN tasks' # DOMAIN tasks
              /\ \A t \in DOMAIN tasks' \ DOMAIN tasks :
                     assigner(t)' = request'.user
        /\ \A t \in TaskIds :
               t \in DOMAIN tasks' => assigner(t)' = assigner(t)
        /\ \A t \in DOMAIN tasks' :
               (assigner(t)' = NULL)
                   <=> ~\E r \in DOMAIN roles' :
                          roles'[r].task = t /\ roles'[r].role = "assigner"
      ]_vars

\* C25 witness: an add-role request has just given the task a second
\* assigner role, and assigner(task) is still the user of the older one.
C25_Witness ==
    /\ request.op = "add_role"
    /\ response.code = HTTP_201_CREATED
    /\ request.data["role"] = "assigner"
    /\ assigner(request.pk) # request.data["user_id"]
    /\ assigner(request.pk) = roles[Min(RolesOf(request.pk))].user

\* C26: a Task whose status is completed has no TaskItem whose status
\* differs from completed.
C26_CompletedTaskHasCompletedItems ==
    \A t \in TaskIds :
        tasks[t].status = "completed"
            => \A i \in ItemsOf(t) : items[i].status = "completed"

\* C27: when a task update to status=completed is handled while add-item
\* requests and item updates on the same task are handled in between its
\* completion check and its write, the write of an accepted update
\* commits only in a state where all items of the task are completed.
C27_CompletionCommitsOnCompletedItems ==
    [][ \A w \in Workers :
          ( /\ inflight[w].pc = "save_task"
            /\ inflight'[w].pc = "idle"
            /\ Get(inflight[w].data, "status", "") = "completed"
            /\ response'.code = HTTP_200_OK )
          => \A i \in DOMAIN items' :
                 items'[i].task = inflight[w].pk
                     => items'[i].status = "completed"
      ]_vars

\* C28 as stated: a remove-role request addressed to task T whose role id
\* names a role of another task, or no role at all, is answered 404 and
\* deletes no TaskRole, whoever the actor is.
C28_ForeignRoleNotFound ==
    [][ LET t == request'.pk
            r == Get(request'.data, "role_id", NULL)
        IN  ( /\ request'.op = "remove_role"
              /\ ~(r \in RoleIds /\ roles[r].task = t) )
            => /\ roles' = roles
               /\ response'.code = HTTP_404_NOT_FOUND
      ]_vars

\* C28 amended: a remove-role request addressed to task T whose role id
\* names a role of another task, or no role at all, deletes no TaskRole
\* of any task; it is answered 404 when the actor passes the assigner
\* check on T or does not see T, and 403 when the actor sees T without
\* passing the assigner check.
C28_ForeignRoleNotDeleted ==
    [][ LET u == request'.user
            t == request'.pk
            r == Get(request'.data, "role_id", NULL)
            denied == Task_get_object(u, t, IsAssigner_Task(u, t))
        IN  ( /\ request'.op = "remove_role"
              /\ ~(r \in RoleIds /\ roles[r].task = t) )
            => /\ roles' = roles
               /\ response'.code =
                      IF denied = 0 THEN HTTP_404_NOT_FOUND ELSE denied
               /\ denied \in {0, HTTP_403_FORBIDDEN, HTTP_404_NOT_FOUND}
      ]_vars

\* C28 witness: the assigner of a task asked to remove, through that
\* task, a co_executor or observer role of another task, was answered
\* 404, and the role is still there.
C28_Witness ==
    /\ request.op = "remove_role"
    /\ response.code = HTTP_404_NOT_FOUND
    /\ request.pk \in TaskIds
    /\ \E a \in RolesOf(request.pk) :
           roles[a].user = request.user /\ roles[a].role = "assigner"
    /\ request.data["role_id"] \in RoleIds
    /\ roles[request.data["role_id"]].task # request.pk
    /\ roles[request.data["role_id"]].role # "assigner"

\* C29: completed_at of a TaskItem receives a value only in the write that
\* moves the item from a non-completed status to completed (or creates it
\* as completed), and the value is the time of that write, never a value
\* of the request body; a write that keeps status = completed, whatever
\* else it changes, leaves completed_at as it was.
C29_CompletedAtAssignedOnce ==
    [][ /\ \A i \in DOMAIN items \cap DOMAIN items' :
             /\ ( /\ items'[i].completed_at # NULL
                  /\ items'[i].completed_at # items[i].completed_at )
                => /\ items[i].status # "completed"
                   /\ items'[i].status = "completed"
                   /\ items'[i].completed_at = now
             /\ ( /\ items[i].status = "completed"
                  /\ items'[i].status = "completed" )
                => items'[i].completed_at = items[i].completed_at
        /\ \A i \in DOMAIN items' \ DOMAIN items :
             items'[i].completed_at # NULL
                => /\ items'[i].status = "completed"
                   /\ items'[i].completed_at = now
      ]_vars

\* C29 witness: an accepted update of an item that was completed by an
\* earlier request changed its title or re-sent status = completed
\* or sent a completed_at value, and the item carries the time of the
\* earlier request.
C29_Witness ==
    /\ request.op = "item_update"
    /\ response.code = HTTP_200_OK
    /\ request.pk \in DOMAIN items
    /\ items[request.pk].status = "completed"
    /\ items[request.pk].completed_at # NULL
    /\ items[request.pk].completed_at < now - 1
    /\ \/ Get(request.data, "status", "") = "completed"
       \/ Has(request.data, "completed_at")
       \/ items[request.pk].title = "b"

\* C30: a task creation whose body is valid and whose users exist, and in
\* which an item definition supplies its own order value, is answered 201
\* and stores every item with order equal to its input position.
C30_SuppliedOrderOverridden ==
    [][ LET C == Get(request'.data, "co_executors", <<>>)
            O == Get(request'.data, "observers", <<>>)
            I == Get(request'.data, "task_items", <<>>)
        IN  ( /\ request'.op = "create"
              /\ TaskCreateSerializer_is_valid(request'.data)
              /\ \E k \in 1..Len(I) : Has(I[k], "order")
              /\ \A k \in 1..Len(I) :
                     UserExists(Get(I[k], "executor_id", 1))
              /\ C = <<>> /\ O = <<>> )
            => /\ response'.code = HTTP_201_CREATED
               /\ \A k \in 1..Len(I) :
                      LET i == next_item_id + k - 1
                      IN  /\ i \in DOMAIN items'
                          /\ items'[i].task = response'.detail
                          /\ items'[i].order = k - 1
      ]_vars

====
